---------------------------- MODULE Spec2Model ----------------------------
(***************************************************************************)
(* A model of the professions pipeline: the salvage parser, the degrading  *)
(* call ladder, name collection and the bounded enrichment fan-out.        *)
(*                                                                         *)
(* Text is a sequence of one-character strings.  A JSON value (and so a    *)
(* Python value produced by json.loads) is a record of one uniform shape   *)
(*     [t |-> tag, n |-> number, s |-> text, a |-> children]               *)
(* with tag "null", "bool", "num", "str", "arr", "obj"; the children of an *)
(* "obj" are "kv" entries in insertion order (s the key, a the one value). *)
(***************************************************************************)
EXTENDS Integers, Sequences, FiniteSets, TLC

(***************************************************************************)
(* Python values                                                           *)
(***************************************************************************)
JNull == [t |-> "null", n |-> 0, s |-> <<>>, a |-> <<>>]
JBool(b) == [t |-> "bool", n |-> IF b THEN 1 ELSE 0, s |-> <<>>, a |-> <<>>]
JNum(k) == [t |-> "num", n |-> k, s |-> <<>>, a |-> <<>>]
JStr(x) == [t |-> "str", n |-> 0, s |-> x, a |-> <<>>]
JArr(xs) == [t |-> "arr", n |-> 0, s |-> <<>>, a |-> xs]
JObj(es) == [t |-> "obj", n |-> 0, s |-> <<>>, a |-> es]
KV(k, v) == [t |-> "kv", n |-> 0, s |-> k, a |-> <<v>>]
EmptyDict == JObj(<<>>)
\* markers that are no JSON value
Absent == [t |-> "absent", n |-> 0, s |-> <<>>, a |-> <<>>]
Unset == [t |-> "unset", n |-> 0, s |-> <<>>, a |-> <<>>]

\* bool(v): the truth value Python gives a decoded JSON value
Truthy(v) ==
    CASE v.t = "null" -> FALSE
      [] v.t \in {"bool", "num"} -> v.n # 0
      [] v.t = "str" -> v.s # <<>>
      [] OTHER -> v.a # <<>>

IsDict(v) == v.t = "obj"
IsList(v) == v.t = "arr"
IsStr(v) == v.t = "str"
\* isinstance(v, (int, float)); bool is a subclass of int
IsNumber(v) == v.t \in {"num", "bool"}

HasKey(d, k) == \E i \in 1..Len(d.a) : d.a[i].s = k
\* d.get(k): the value under k, None when absent
DictGet(d, k) ==
    IF HasKey(d, k)
    THEN d.a[CHOOSE i \in 1..Len(d.a) : d.a[i].s = k].a[1]
    ELSE JNull
\* d[k] = v on the entry list: an existing key keeps its position
EntriesSet(es, k, v) ==
    IF \E i \in 1..Len(es) : es[i].s = k
    THEN [i \in 1..Len(es) |-> IF es[i].s = k THEN KV(k, v) ELSE es[i]]
    ELSE Append(es, KV(k, v))
DictSet(d, k, v) == JObj(EntriesSet(d.a, k, v))
\* a setdefault that assigns whether or not the key is there
SetDefaultOverwrite(d, k, v) == DictSet(d, k, v)
\* d.setdefault(k, v)
SetDefault(d, k, v) == IF HasKey(d, k) THEN d ELSE DictSet(d, k, v)
Keys(d) == {d.a[i].s : i \in 1..Len(d.a)}

\* Python's == on decoded JSON values: dicts compare without regard to order
RECURSIVE PyEq(_, _)
PyEq(x, y) ==
    CASE IsNumber(x) /\ IsNumber(y) -> x.n = y.n
      [] x.t # y.t -> FALSE
      [] x.t = "arr" ->
            /\ Len(x.a) = Len(y.a)
            /\ \A i \in 1..Len(x.a) : PyEq(x.a[i], y.a[i])
      [] x.t = "obj" ->
            /\ Keys(x) = Keys(y)
            /\ \A k \in Keys(x) : PyEq(DictGet(x, k), DictGet(y, k))
      [] OTHER -> x = y

(***************************************************************************)
(* json.loads over the model's characters: the letters and digits, the     *)
(* structural characters, the quote and the blank.  The characters '\',    *)
(* '.', '-', '+' and the upper-case 'E', 'N', 'I' never occur in a modelled*)
(* text, so escapes, fractions, signs, NaN and Infinity have no branch.    *)
(***************************************************************************)
Whitespace == {" "}
Digits == {"0", "1", "2", "3", "4", "5", "6", "7", "8", "9"}
DigitVal(c) ==
    CASE c = "0" -> 0 [] c = "1" -> 1 [] c = "2" -> 2 [] c = "3" -> 3
      [] c = "4" -> 4 [] c = "5" -> 5 [] c = "6" -> 6 [] c = "7" -> 7
      [] c = "8" -> 8 [] c = "9" -> 9

ParseFail == [ok |-> FALSE, v |-> JNull, p |-> 0]
ParseOk(v, p) == [ok |-> TRUE, v |-> v, p |-> p]

RECURSIVE SkipWs(_, _)
SkipWs(s, p) ==
    IF p <= Len(s) /\ s[p] \in Whitespace THEN SkipWs(s, p + 1) ELSE p

StartsWith(s, p, w) ==
    /\ p + Len(w) - 1 <= Len(s)
    /\ \A i \in 1..Len(w) : s[p + i - 1] = w[i]

\* s[p] is the opening quote
ParseString(s, p) ==
    IF \E q \in (p + 1)..Len(s) : s[q] = "\""
    THEN LET q == CHOOSE q \in (p + 1)..Len(s) :
                    /\ s[q] = "\""
                    /\ \A r \in (p + 1)..(q - 1) : s[r] # "\""
         IN ParseOk(JStr(SubSeq(s, p + 1, q - 1)), q + 1)
    ELSE ParseFail

RECURSIVE DigitsEnd(_, _)
DigitsEnd(s, p) ==
    IF p <= Len(s) /\ s[p] \in Digits THEN DigitsEnd(s, p + 1) ELSE p
RECURSIVE DigitsValue(_, _, _)
DigitsValue(s, p, q) ==
    IF q < p THEN 0 ELSE 10 * DigitsValue(s, p, q - 1) + DigitVal(s[q])
RECURSIVE Pow10(_)
Pow10(k) == IF k = 0 THEN 1 ELSE 10 * Pow10(k - 1)

\* (0|[1-9]\d*)([eE]\d+)? with s[p] a digit
ParseNumber(s, p) ==
    LET q == IF s[p] = "0" THEN p + 1 ELSE DigitsEnd(s, p)
        int == DigitsValue(s, p, q - 1)
        hasExp == q + 1 <= Len(s) /\ s[q] = "e" /\ s[q + 1] \in Digits
        r == DigitsEnd(s, q + 1)
    IN IF hasExp
       THEN ParseOk(JNum(int * Pow10(DigitsValue(s, q + 1, r - 1))), r)
       ELSE ParseOk(JNum(int), q)

RECURSIVE ParseValue(_, _), ParseMembers(_, _, _), ParseElements(_, _, _)
\* scanner.scan_once
ParseValue(s, p) ==
    IF p > Len(s) THEN ParseFail
    ELSE LET c == s[p] IN
         CASE c = "\"" -> ParseString(s, p)
           [] c = "{" ->
                LET q == SkipWs(s, p + 1) IN
                IF q <= Len(s) /\ s[q] = "}"
                THEN ParseOk(EmptyDict, q + 1)
                ELSE ParseMembers(s, q, <<>>)
           [] c = "[" ->
                LET q == SkipWs(s, p + 1) IN
                IF q <= Len(s) /\ s[q] = "]"
                THEN ParseOk(JArr(<<>>), q + 1)
                ELSE ParseElements(s, q, <<>>)
           [] c = "n" /\ StartsWith(s, p, <<"n", "u", "l", "l">>) ->
                ParseOk(JNull, p + 4)
           [] c = "t" /\ StartsWith(s, p, <<"t", "r", "u", "e">>) ->
                ParseOk(JBool(TRUE), p + 4)
           [] c = "f" /\ StartsWith(s, p, <<"f", "a", "l", "s", "e">>) ->
                ParseOk(JBool(FALSE), p + 5)
           [] c \in Digits -> ParseNumber(s, p)
           [] OTHER -> ParseFail

\* decoder.JSONObject after the opening brace: q is where a key must start
ParseMembers(s, q, acc) ==
    IF q > Len(s) \/ s[q] # "\"" THEN ParseFail
    ELSE LET k == ParseString(s, q) IN
         IF ~k.ok THEN ParseFail
         ELSE LET c == SkipWs(s, k.p) IN
              IF c > Len(s) \/ s[c] # ":" THEN ParseFail
              ELSE LET v == ParseValue(s, SkipWs(s, c + 1)) IN
                   IF ~v.ok THEN ParseFail
                   ELSE LET e == SkipWs(s, v.p)
                            acc2 == EntriesSet(acc, k.v.s, v.v)
                        IN IF e > Len(s) THEN ParseFail
                           ELSE IF s[e] = "}" THEN ParseOk(JObj(acc2), e + 1)
                           ELSE IF s[e] = ","
                                THEN ParseMembers(s, SkipWs(s, e + 1), acc2)
                           ELSE ParseFail

\* decoder.JSONArray after the opening bracket: q is where a value must start
ParseElements(s, q, acc) ==
    LET v == ParseValue(s, q) IN
    IF ~v.ok THEN ParseFail
    ELSE LET e == SkipWs(s, v.p)
             acc2 == Append(acc, v.v)
         IN IF e > Len(s) THEN ParseFail
            ELSE IF s[e] = "]" THEN ParseOk(JArr(acc2), e + 1)
            ELSE IF s[e] = ","
                 THEN ParseElements(s, SkipWs(s, e + 1), acc2)
            ELSE ParseFail

\* json.loads: one value, blanks around it, nothing else ("Extra data")
json_loads(s) ==
    LET r == ParseValue(s, SkipWs(s, 1)) IN
    IF r.ok /\ SkipWs(s, r.p) = Len(s) + 1 THEN r ELSE ParseFail

\* s.find(c) and s.rfind(c), 1-based, 0 when absent
Find(s, c) ==
    IF \E i \in 1..Len(s) : s[i] = c
    THEN CHOOSE i \in 1..Len(s) : s[i] = c /\ \A j \in 1..(i - 1) : s[j] # c
    ELSE 0
RFind(s, c) ==
    IF \E i \in 1..Len(s) : s[i] = c
    THEN CHOOSE i \in 1..Len(s) :
            s[i] = c /\ \A j \in (i + 1)..Len(s) : s[j] # c
    ELSE 0

\* _safe_json cutting at the first closing brace instead of the last
_safe_json_first_close(s) ==
    LET strict == json_loads(IF s = <<>> THEN <<"{", "}">> ELSE s) IN
    IF strict.ok THEN strict.v
    ELSE LET i == Find(s, "{")
             j == Find(s, "}")
         IN IF i >= 1 /\ j > i
            THEN LET inner == json_loads(SubSeq(s, i, j)) IN
                 IF inner.ok THEN inner.v ELSE EmptyDict
            ELSE EmptyDict

_safe_json(s) ==
    LET strict == json_loads(IF s = <<>> THEN <<"{", "}">> ELSE s) IN
    IF strict.ok THEN strict.v
    ELSE LET i == Find(s, "{")
             j == RFind(s, "}")
         IN IF i >= 1 /\ j > i
            THEN LET inner == json_loads(SubSeq(s, i, j)) IN
                 IF inner.ok THEN inner.v ELSE EmptyDict
            ELSE EmptyDict

(***************************************************************************)
(* json.dumps with the default separators                                  *)
(***************************************************************************)
DigitChar(d) ==
    CASE d = 0 -> "0" [] d = 1 -> "1" [] d = 2 -> "2" [] d = 3 -> "3"
      [] d = 4 -> "4" [] d = 5 -> "5" [] d = 6 -> "6" [] d = 7 -> "7"
      [] d = 8 -> "8" [] d = 9 -> "9"
RECURSIVE IntText(_)
IntText(k) ==
    IF k < 10 THEN <<DigitChar(k)>>
    ELSE Append(IntText(k \div 10), DigitChar(k % 10))

RECURSIVE json_dumps(_), DumpItems(_, _)
json_dumps(v) ==
    CASE v.t = "null" -> <<"n", "u", "l", "l">>
      [] v.t = "bool" -> IF v.n = 1 THEN <<"t", "r", "u", "e">>
                         ELSE <<"f", "a", "l", "s", "e">>
      [] v.t = "num" -> IntText(v.n)
      [] v.t = "str" -> <<"\"">> \o v.s \o <<"\"">>
      [] v.t = "kv" -> <<"\"">> \o v.s \o <<"\"", ":", " ">> \o json_dumps(v.a[1])
      [] v.t = "arr" -> <<"[">> \o DumpItems(v.a, 1) \o <<"]">>
      [] v.t = "obj" -> <<"{">> \o DumpItems(v.a, 1) \o <<"}">>
DumpItems(xs, i) ==
    IF i > Len(xs) THEN <<>>
    ELSE json_dumps(xs[i])
         \o (IF i < Len(xs) THEN <<",", " ">> ELSE <<>>)
         \o DumpItems(xs, i + 1)

(***************************************************************************)
(* Text helpers of the provider                                            *)
(***************************************************************************)
\* str.lower on the model's letters
Lower(c) ==
    CASE c = "A" -> "a" [] c = "B" -> "b" [] c = "C" -> "c" [] c = "D" -> "d"
      [] c = "E" -> "e" [] c = "F" -> "f" [] c = "G" -> "g" [] c = "H" -> "h"
      [] c = "I" -> "i" [] c = "J" -> "j" [] c = "K" -> "k" [] c = "L" -> "l"
      [] c = "M" -> "m" [] c = "N" -> "n" [] c = "O" -> "o" [] c = "P" -> "p"
      [] c = "Q" -> "q" [] c = "R" -> "r" [] c = "S" -> "s" [] c = "T" -> "t"
      [] c = "U" -> "u" [] c = "V" -> "v" [] c = "W" -> "w" [] c = "X" -> "x"
      [] c = "Y" -> "y" [] c = "Z" -> "z" [] OTHER -> c
lower(x) == [i \in 1..Len(x) |-> Lower(x[i])]

RECURSIVE lstrip(_), rstrip(_)
lstrip(x) ==
    IF x # <<>> /\ x[1] \in Whitespace THEN lstrip(Tail(x)) ELSE x
rstrip(x) ==
    IF x # <<>> /\ x[Len(x)] \in Whitespace
    THEN rstrip(SubSeq(x, 1, Len(x) - 1)) ELSE x
strip(x) == rstrip(lstrip(x))

\* the loop of _dedup_strings from item k on; items are texts
RECURSIVE DedupFrom(_, _, _, _)
DedupFrom(items, k, out, seen) ==
    IF k > Len(items) THEN out
    ELSE LET t == strip(items[k])
             key == lower(t)
         IN IF t # <<>> /\ key \notin seen
            THEN DedupFrom(items, k + 1, Append(out, t), seen \cup {key})
            ELSE DedupFrom(items, k + 1, out, seen)
_dedup_strings(items) == DedupFrom(items, 1, <<>>, {})

(***************************************************************************)
(* The provider: one attempt, the ladder, the two public operations        *)
(***************************************************************************)
K_names == <<"n", "a", "m", "e", "s">>
K_sourceNote == <<"s", "o", "u", "r", "c", "e", "N", "o", "t", "e">>
K_name == <<"n", "a", "m", "e">>
K_category == <<"c", "a", "t", "e", "g", "o", "r", "y">>
K_description == <<"d", "e", "s", "c", "r", "i", "p", "t", "i", "o", "n">>
K_startSalary == <<"s", "t", "a", "r", "t", "S", "a", "l", "a", "r", "y">>
K_endSalary == <<"e", "n", "d", "S", "a", "l", "a", "r", "y">>
K_popularity == <<"p", "o", "p", "u", "l", "a", "r", "i", "t", "y">>
K_skills == <<"s", "k", "i", "l", "l", "s">>
BUSINESS == <<"B", "U", "S", "I", "N", "E", "S", "S">>

\* what one endpoint call can end with besides a response
TransportErrors ==
    { "RateLimitError", "APITimeoutError", "APIConnectionError",
      "InternalServerError", "BadRequestError", "TimeoutError" }
IsSubclass(exc, cls) ==
    \/ cls = exc
    \/ cls = "Exception"
    \/ exc = "APITimeoutError" /\ cls = "APIConnectionError"
\* the except clause without its Exception member
ExceptClauseNamedOnly ==
    { "RateLimitError", "APITimeoutError", "APIConnectionError",
      "InternalServerError", "BadRequestError" }
\* the classes of the except clause of _responses_call and _chat_call
ExceptClause ==
    { "RateLimitError", "APITimeoutError", "APIConnectionError",
      "InternalServerError", "BadRequestError", "Exception" }

\* the end of an endpoint call: a response with its text, or an exception
Response(text) == [kind |-> "response", text |-> text, exc |-> ""]
Failure(exc) == [kind |-> "error", text |-> <<>>, exc |-> exc]

Return(v) == [raised |-> FALSE, exc |-> "", val |-> v]
Raise(exc) == [raised |-> TRUE, exc |-> exc, val |-> JNull]
NotReturned == [raised |-> FALSE, exc |-> "", val |-> Unset]

_responses_call(outcome) ==
    IF outcome.kind = "response" THEN Return(_safe_json(outcome.text))
    ELSE IF \E cls \in ExceptClause : IsSubclass(outcome.exc, cls)
         THEN Return(EmptyDict)
         ELSE Raise(outcome.exc)

_chat_call(outcome) ==
    IF outcome.kind = "response" THEN Return(_safe_json(outcome.text))
    ELSE IF \E cls \in ExceptClause : IsSubclass(outcome.exc, cls)
         THEN Return(EmptyDict)
         ELSE Raise(outcome.exc)

(***************************************************************************)
(* _json_schema_safe as a process.  A ladder record holds                  *)
(*   pc      "idle", "call" (an endpoint call is awaited), "sleep" (a      *)
(*           backoff delay is awaited), "done" or "raised"                 *)
(*   layer   1 tool-augmented, 2 plain, 3 chat;  i  the index of _try      *)
(*   out     what the latest attempt returned (the local out of _try)      *)
(*   result  what _json_schema_safe returned, exc what it raised           *)
(*   calls   every attempt so far with how it ended, sleeps every delay    *)
(***************************************************************************)
MaxDelay == 3
LadderIdle ==
    [pc |-> "idle", layer |-> 0, i |-> 0, out |-> EmptyDict, result |-> Unset,
     exc |-> "", calls |-> <<>>, sleeps |-> <<>>]

Pending(layer) == [layer |-> layer, how |-> "pending"]

\* _try entered for a layer: with no iteration to make it returns last = {},
\* which is falsy, so the next layer is entered; after the chat layer the
\* ladder returns out or {}
RECURSIVE EnterLayer(_, _, _)
EnterLayer(l, layer, retries) ==
    IF layer > 3
    THEN [l EXCEPT !.pc = "done", !.result = EmptyDict]
    ELSE IF retries <= 0
         THEN EnterLayer(l, layer + 1, retries)
         ELSE [l EXCEPT !.pc = "call", !.layer = layer, !.i = 0,
                        !.calls = Append(@, Pending(layer))]

LadderStart(retries) == EnterLayer(LadderIdle, 1, retries)

Min(x, y) == IF x <= y THEN x ELSE y
EndLast(calls, how) == [calls EXCEPT ![Len(calls)].how = how]

\* the ladder that retries whatever the attempt returned
LadderOnAttemptNoShortCircuit(l, outcome, got) ==
    IF got.raised
    THEN [l EXCEPT !.pc = "raised", !.exc = got.exc,
                   !.calls = EndLast(@, "failed")]
    ELSE [l EXCEPT !.pc = "sleep", !.out = got.val,
                   !.sleeps = Append(@, Min(l.i + 1, MaxDelay)),
                   !.calls = EndLast(@, IF outcome.kind = "error"
                                        THEN "failed" ELSE "empty")]

\* the awaited call of attempt (layer, i) ended with outcome and the layer's
\* call function returned got:  out = await fn(); if out: return out;
\* otherwise the backoff sleep starts
LadderOnAttempt(l, outcome, got) ==
    IF got.raised
    THEN [l EXCEPT !.pc = "raised", !.exc = got.exc,
                   !.calls = EndLast(@, "failed")]
    ELSE IF Truthy(got.val)
         THEN [l EXCEPT !.pc = "done", !.out = got.val, !.result = got.val,
                        !.calls = EndLast(@, "result")]
         ELSE [l EXCEPT !.pc = "sleep", !.out = got.val,
                        !.sleeps = Append(@, Min(l.i + 1, MaxDelay)),
                        !.calls = EndLast(@, IF outcome.kind = "error"
                                             THEN "failed" ELSE "empty")]

\* the retry loop that makes one iteration too many
LadderOnWakeOneMore(l, retries) ==
    IF l.i + 1 <= retries
    THEN [l EXCEPT !.pc = "call", !.i = @ + 1,
                   !.calls = Append(@, Pending(l.layer))]
    ELSE EnterLayer(l, l.layer + 1, retries)

\* the backoff sleep ended: last = out, then the next iteration of _try or,
\* after the last one, the next layer
LadderOnWake(l, retries) ==
    IF l.i + 1 < retries
    THEN [l EXCEPT !.pc = "call", !.i = @ + 1,
                   !.calls = Append(@, Pending(l.layer))]
    ELSE EnterLayer(l, l.layer + 1, retries)

\* _json_schema_safe has returned or raised
Ended(l) == l.pc \in {"done", "raised"}

\* iterating a truthy Python value in a comprehension
Iterable(v) == v.t \in {"arr", "str", "obj"}
Iterate(v) ==
    CASE v.t = "arr" -> v.a
      [] v.t = "str" -> [k \in 1..Len(v.s) |-> JStr(<<v.s[k]>>)]
      [] v.t = "obj" -> [k \in 1..Len(v.a) |-> JStr(v.a[k].s)]

RECURSIVE StrTexts(_)
\* [n for n in names if isinstance(n, str)], as texts
StrTexts(xs) ==
    IF xs = <<>> THEN <<>>
    ELSE (IF IsStr(xs[1]) THEN <<xs[1].s>> ELSE <<>>) \o StrTexts(Tail(xs))
StrList(texts) == JArr([k \in 1..Len(texts) |-> JStr(texts[k])])

\* list_profession_names after the ladder returned out
list_profession_names(out) ==
    IF ~IsDict(out) THEN Raise("AttributeError")
    ELSE LET got == DictGet(out, K_names)
             names == IF Truthy(got) THEN got ELSE JArr(<<>>)
         IN IF ~Iterable(names) THEN Raise("TypeError")
            ELSE Return(StrList(_dedup_strings(StrTexts(Iterate(names)))))

\* the normalizer without its salary sanity step
get_profession_detail_no_swap(out, name) ==
    IF ~IsDict(out) THEN Raise("AttributeError")
    ELSE LET d1 == SetDefault(out, K_name, JStr(name))
             d2 == SetDefault(d1, K_category, JStr(BUSINESS))
             d3 == SetDefault(d2, K_description, JNull)
             d4 == SetDefault(d3, K_startSalary, JNull)
             d5 == SetDefault(d4, K_endSalary, JNull)
             d6 == SetDefault(d5, K_popularity, JNull)
         IN Return(IF ~IsList(DictGet(d6, K_skills))
                   THEN DictSet(d6, K_skills, JArr(<<>>)) ELSE d6)
\* get_profession_detail(locale, name) after the ladder returned out
get_profession_detail(out, name) ==
    IF ~IsDict(out) THEN Raise("AttributeError")
    ELSE LET d1 == SetDefault(out, K_name, JStr(name))
             d2 == SetDefault(d1, K_category, JStr(BUSINESS))
             d3 == SetDefault(d2, K_description, JNull)
             d4 == SetDefault(d3, K_startSalary, JNull)
             d5 == SetDefault(d4, K_endSalary, JNull)
             d6 == SetDefault(d5, K_popularity, JNull)
             d7 == IF ~IsList(DictGet(d6, K_skills))
                   THEN DictSet(d6, K_skills, JArr(<<>>)) ELSE d6
             s == DictGet(d7, K_startSalary)
             e == DictGet(d7, K_endSalary)
         IN IF IsNumber(s) /\ IsNumber(e) /\ s.n > e.n
            THEN Return(DictSet(DictSet(d7, K_startSalary, e), K_endSalary, s))
            ELSE Return(d7)

(***************************************************************************)
(* UploadProfessionDto                                                     *)
(***************************************************************************)
\* the loop of _clean_skills from entry k on, deduplicating on the lowered text
RECURSIVE CleanFromCaseless(_, _, _, _)
CleanFromCaseless(v, k, out, seen) ==
    IF k > Len(v) THEN out
    ELSE IF IsStr(v[k])
         THEN LET t == strip(v[k].s) IN
              IF t # <<>> /\ lower(t) \notin seen
              THEN CleanFromCaseless(v, k + 1, Append(out, t), seen \cup {lower(t)})
              ELSE CleanFromCaseless(v, k + 1, out, seen)
         ELSE CleanFromCaseless(v, k + 1, out, seen)
_clean_skills_caseless(v) ==
    IF ~IsList(v) THEN <<>> ELSE CleanFromCaseless(v.a, 1, <<>>, {})

\* the loop of _clean_skills from entry k on
RECURSIVE CleanFrom(_, _, _, _)
CleanFrom(v, k, out, seen) ==
    IF k > Len(v) THEN out
    ELSE IF IsStr(v[k])
         THEN LET t == strip(v[k].s) IN
              IF t # <<>> /\ t \notin seen
              THEN CleanFrom(v, k + 1, Append(out, t), seen \cup {t})
              ELSE CleanFrom(v, k + 1, out, seen)
         ELSE CleanFrom(v, k + 1, out, seen)
\* the skills field validator (mode "before"): the cleaned list of texts
_clean_skills(v) ==
    IF ~IsList(v) THEN <<>> ELSE CleanFrom(v.a, 1, <<>>, {})

\* the members of PROFESSION_CATEGORY and POPULARITY as the texts a payload
\* carries (domain/enums.py is not part of the sources read here; the lists of
\* the provider mirror the same enumerations)
PROFESSION_CATEGORY ==
    { <<"T", "E", "C", "H", "N", "O", "L", "O", "G", "Y">>,
      <<"M", "E", "D", "I", "C", "I", "N", "E">>,
      <<"E", "D", "U", "C", "A", "T", "I", "O", "N">>,
      <<"F", "I", "N", "A", "N", "C", "E">>,
      <<"E", "N", "G", "I", "N", "E", "E", "R", "I", "N", "G">>,
      <<"A", "R", "T", "S">>,
      <<"B", "U", "S", "I", "N", "E", "S", "S">>,
      <<"L", "A", "W">>,
      <<"S", "C", "I", "E", "N", "C", "E">>,
      <<"S", "O", "C", "I", "A", "L", "_", "S", "C", "I", "E", "N", "C", "E", "S">>,
      <<"G", "O", "V", "E", "R", "N", "M", "E", "N", "T">>,
      <<"A", "G", "R", "I", "C", "U", "L", "T", "U", "R", "E">> }
POPULARITY == { <<"L", "O", "W">>, <<"M", "E", "D", "I", "U", "M">>, <<"H", "I", "G", "H">> }

\* one field after validation: ok, and the value the model keeps
Valid(v) == [ok |-> TRUE, val |-> v]
Invalid == [ok |-> FALSE, val |-> JNull]

\* name: str = Field(min_length=1)
ValidateName(v) == IF IsStr(v) /\ Len(v.s) >= 1 THEN Valid(v) ELSE Invalid
\* category: PROFESSION_CATEGORY
ValidateCategory(v) ==
    IF IsStr(v) /\ v.s \in PROFESSION_CATEGORY THEN Valid(v) ELSE Invalid
\* description: Optional[str] = None
ValidateDescription(v) == IF v = JNull \/ IsStr(v) THEN Valid(v) ELSE Invalid
\* Optional[float] = Field(default=None, ge=0): None, or a number (a bool
\* counts as 0 or 1) that is not negative; the payloads drawn in this model
\* carry no numeric text, and every other value is refused
ValidateSalary(v) ==
    IF v = JNull THEN Valid(JNull)
    ELSE IF IsNumber(v) /\ v.n >= 0 THEN Valid(JNum(v.n))
    ELSE Invalid
\* popularity: Optional[POPULARITY] = None
ValidatePopularity(v) ==
    IF v = JNull \/ (IsStr(v) /\ v.s \in POPULARITY) THEN Valid(v) ELSE Invalid

\* the endSalary validator, run on a valid endSalary v; start is
\* info.data.get("startSalary"), None when startSalary was refused
_range_ok(v, start) ==
    IF v # JNull /\ start # JNull /\ v.n < start.n THEN start ELSE v

\* UploadProfessionDto(**detail).model_dump(): the seven fields in order, or
\* ValidationError; keys that are no field are ignored
UploadProfessionDto(detail) ==
    LET name == ValidateName(DictGet(detail, K_name))
        category == ValidateCategory(DictGet(detail, K_category))
        description == ValidateDescription(DictGet(detail, K_description))
        startSalary == ValidateSalary(DictGet(detail, K_startSalary))
        endSalary == ValidateSalary(DictGet(detail, K_endSalary))
        popularity == ValidatePopularity(DictGet(detail, K_popularity))
        skills == IF HasKey(detail, K_skills)
                  THEN _clean_skills(DictGet(detail, K_skills)) ELSE <<>>
        end == IF endSalary.ok THEN _range_ok(endSalary.val, startSalary.val)
               ELSE JNull
    IN IF name.ok /\ category.ok /\ description.ok /\ startSalary.ok
          /\ endSalary.ok /\ popularity.ok
       THEN Return(JObj(<<KV(K_name, name.val), KV(K_category, category.val),
                          KV(K_description, description.val),
                          KV(K_startSalary, startSalary.val),
                          KV(K_endSalary, end),
                          KV(K_popularity, popularity.val),
                          KV(K_skills, StrList(skills))>>))
       ELSE Raise("ValidationError")

(***************************************************************************)
(* Name collection: the seed list, the names file, Stage A                 *)
(***************************************************************************)
PROFESSION_CATEGORY_VALUES ==
    { "TECHNOLOGY", "MEDICINE", "EDUCATION", "FINANCE", "ENGINEERING", "ARTS",
      "BUSINESS", "LAW", "SCIENCE", "SOCIAL_SCIENCES", "GOVERNMENT",
      "AGRICULTURE" }

\* the ten seed names of a category of base stand as its initial and a digit;
\* like the literals they are trimmed and differ pairwise whatever the case
SeedsPerCategory == 10
SeedInitial(c) ==
    CASE c = "TECHNOLOGY" -> "T" [] c = "MEDICINE" -> "M" [] c = "BUSINESS" -> "B"
SeededCategories == <<"TECHNOLOGY", "MEDICINE", "BUSINESS">>
\* base.get(c, [])
BaseGet(c) ==
    IF \E k \in 1..Len(SeededCategories) : SeededCategories[k] = c
    THEN [k \in 1..SeedsPerCategory |-> <<SeedInitial(c), DigitChar(k - 1)>>]
    ELSE <<>>
RECURSIVE ExtendAll(_, _)
\* chosen.extend(base.get(c, [])) for c from index k on
ExtendAll(cats, k) ==
    IF k > Len(cats) THEN <<>> ELSE BaseGet(cats[k]) \o ExtendAll(cats, k + 1)
\* a category filter is a list of categories, the empty list standing for None
seed_names(cats) ==
    IF cats # <<>> THEN _dedup_strings(ExtendAll(cats, 1))
    ELSE _dedup_strings(ExtendAll(SeededCategories, 1))

\* the loop of load_names_file from line k on
RECURSIVE LoadFrom(_, _, _, _)
LoadFrom(lines, k, out, seen) ==
    IF k > Len(lines) THEN out
    ELSE LET line == strip(lines[k])
             key == lower(line)
         IN IF line = <<>> \/ line[1] = "#"
            THEN LoadFrom(lines, k + 1, out, seen)
            ELSE IF key \notin seen
                 THEN LoadFrom(lines, k + 1, Append(out, line), seen \cup {key})
                 ELSE LoadFrom(lines, k + 1, out, seen)
load_names_file(file) ==
    IF ~file.exists THEN <<>> ELSE LoadFrom(file.lines, 1, <<>>, {})

\* the dedup loop of _stage_a_collect_names comparing the names as they are
RECURSIVE StageADedupExactFrom(_, _, _, _)
StageADedupExactFrom(ns, k, dedup, seen) ==
    IF k > Len(ns) THEN dedup
    ELSE IF ns[k] # <<>> /\ ns[k] \notin seen
         THEN StageADedupExactFrom(ns, k + 1, Append(dedup, ns[k]), seen \cup {ns[k]})
         ELSE StageADedupExactFrom(ns, k + 1, dedup, seen)
StageADedupExact(ns) == StageADedupExactFrom(ns, 1, <<>>, {})

\* the dedup loop of _stage_a_collect_names from name k on
RECURSIVE StageADedupFrom(_, _, _, _)
StageADedupFrom(ns, k, dedup, seen) ==
    IF k > Len(ns) THEN dedup
    ELSE LET key == lower(strip(ns[k])) IN
         IF ns[k] # <<>> /\ key \notin seen
         THEN StageADedupFrom(ns, k + 1, Append(dedup, ns[k]), seen \cup {key})
         ELSE StageADedupFrom(ns, k + 1, dedup, seen)
StageADedup(ns) == StageADedupFrom(ns, 1, <<>>, {})

\* the end of _stage_a_collect_names: dedup, then the seed fallback
StageAResult(ns, cats) ==
    LET dedup == StageADedup(ns) IN
    IF dedup = <<>> THEN seed_names(cats) ELSE dedup

\* what _json_schema_safe can return when the model answers with texts: the
\* first non-empty decoded answer, or {} when no attempt gave one
LadderResults(texts) ==
    {EmptyDict} \cup { _safe_json(x) : x \in { y \in texts : Truthy(_safe_json(y)) } }

(***************************************************************************)
(* State                                                                   *)
(***************************************************************************)
VARIABLES
    \* the salvage parser on one text: prefix + serialized object + suffix
    prefix, embedded, suffix, salvaged,
    \* one provider: its retry count, the public operation in progress
    \* ("none", "names", "detail"), that operation's ladder and its outcome
    layer_retries, op, lad, ret,
    \* the skills validator on one input value, and UploadProfessionDto on
    \* one mapping of keyword arguments
    skills_in, skills_out, dto_in, dto_out,
    \* main() up to Stage B: the lines of the names file, the category
    \* filter, where main is, the index of the category being collected, the
    \* names extended so far, every string entry received so far (history)
    \* and the name list handed to Stage B
    names_file, categories, main_pc, cat_idx, collected, raw_seen, names,
    \* Stage B: the ceiling, the names submitted, the semaphore's free slots
    \* and queue, the unit of each name, the two result lists and where
    \* _stage_b_enrich_details is
    concurrency, submitted, sem, waiters, unit, rows, preflight, stage_b

salvageVars == <<prefix, embedded, suffix, salvaged>>
providerVars == <<layer_retries, op, lad, ret>>
skillsVars == <<skills_in, skills_out, dto_in, dto_out>>
namesVars == <<names_file, categories, main_pc, cat_idx, collected, raw_seen, names>>
fanoutVars == <<concurrency, submitted, sem, waiters, unit, rows, preflight, stage_b>>
vars == <<salvageVars, providerVars, skillsVars, namesVars, fanoutVars>>

\* each specification below runs one part of the program; the variables of
\* the other parts rest at these values
NoFile == [exists |-> FALSE, lines |-> <<>>]
NoFilter == <<>>
SalvageIdle ==
    /\ prefix = <<>>
    /\ embedded = Absent
    /\ suffix = <<>>
    /\ salvaged = Unset
ProviderIdle ==
    /\ layer_retries = 0
    /\ op = "none"
    /\ lad = LadderIdle
    /\ ret = NotReturned
SkillsIdle ==
    /\ skills_in = Unset
    /\ skills_out = Unset
    /\ dto_in = Unset
    /\ dto_out = NotReturned
NamesIdle ==
    /\ names_file = NoFile
    /\ categories = NoFilter
    /\ main_pc = "idle"
    /\ cat_idx = 0
    /\ collected = <<>>
    /\ raw_seen = <<>>
    /\ names = <<>>
FanoutIdle ==
    /\ concurrency = 0
    /\ submitted = <<>>
    /\ sem = 0
    /\ waiters = <<>>
    /\ unit = <<>>
    /\ rows = <<>>
    /\ preflight = <<>>
    /\ stage_b = "idle"

SalvageAlone == ProviderIdle /\ SkillsIdle /\ NamesIdle /\ FanoutIdle
ProviderAlone == SalvageIdle /\ SkillsIdle /\ NamesIdle /\ FanoutIdle
SkillsAlone == SalvageIdle /\ ProviderIdle /\ NamesIdle /\ FanoutIdle
NamesAlone == SalvageIdle /\ ProviderIdle /\ SkillsIdle /\ FanoutIdle
OutsideSalvage == UNCHANGED <<providerVars, skillsVars, namesVars, fanoutVars>>
OutsideProvider == UNCHANGED <<salvageVars, skillsVars, namesVars, fanoutVars>>
OutsideSkills == UNCHANGED <<salvageVars, providerVars, namesVars, fanoutVars>>
OutsideNames == UNCHANGED <<salvageVars, providerVars, skillsVars, fanoutVars>>
\* Stage B shares the provider's layer_retries
FanoutAlone ==
    /\ SalvageIdle /\ SkillsIdle /\ NamesIdle
    /\ op = "none" /\ lad = LadderIdle /\ ret = NotReturned
OutsideFanout ==
    UNCHANGED <<salvageVars, op, lad, ret, skillsVars, namesVars>>

TextsUpTo(chars, len) == UNION {[1..k -> chars] : k \in 0..len}

(***************************************************************************)
(* The salvage parser applied to bounded texts                             *)
(***************************************************************************)
MaxAffixLen == 3
AffixChars == {"{", "}", "[", "]", "\"", "1", "a", " "}
A_ == <<"a">>
JObjects ==
    { EmptyDict,
      JObj(<<KV(A_, JNum(1))>>),
      JObj(<<KV(A_, JObj(<<KV(A_, JArr(<<>>))>>)), KV(<<"1">>, JStr(A_))>>) }

SalvageInput ==
    prefix \o (IF embedded = Absent THEN <<>> ELSE json_dumps(embedded)) \o suffix

SalvageInit ==
    /\ SalvageAlone
    /\ embedded \in JObjects \cup {Absent}
    /\ prefix \in TextsUpTo(AffixChars, MaxAffixLen)
    /\ suffix \in TextsUpTo(AffixChars, MaxAffixLen - Len(prefix))
    /\ salvaged = Unset

SafeJson ==
    /\ salvaged = Unset
    /\ salvaged' = _safe_json(SalvageInput)
    /\ UNCHANGED <<prefix, embedded, suffix>>
    /\ OutsideSalvage

SalvageNext == SafeJson
SpecSalvage == SalvageInit /\ [][SalvageNext]_vars

(***************************************************************************)
(* One public operation of the provider, attempt by attempt                *)
(***************************************************************************)
MaxRetries == 2
RequestedName == <<"A", "b">>

ProseTexts ==
    { <<>>, <<"a">>, <<"[", "]">>, <<"[", "1", "]">>, <<"1">>,
      <<"\"", "a", "\"">>, <<"n", "u", "l", "l">> }
NamesPayloads ==
    { JObj(<<KV(K_names, v)>>) :
        v \in { JArr(<<JStr(<<"A", "b">>), JStr(<<"a", "B", " ">>), JNum(1),
                       JStr(<<" ", "c">>)>>),
                JArr(<<>>), JStr(<<"a", "b">>), JNum(1), JNull,
                JObj(<<KV(A_, JNum(1))>>) } }
    \cup { JObj(<<KV(K_sourceNote, JStr(A_))>>) }
DetailPayloads ==
    { JObj(<<KV(K_name, JStr(<<"A", "b">>)), KV(K_category, JStr(<<"L", "A", "W">>)),
             KV(K_startSalary, JNum(5)), KV(K_endSalary, JNum(2)),
             KV(K_skills, JArr(<<JStr(A_), JStr(<<"b">>), JStr(<<"c">>)>>))>>),
      JObj(<<KV(K_name, JStr(<<"A", "b">>)), KV(K_skills, JStr(A_))>>),
      JObj(<<KV(K_startSalary, JNum(5))>>),
      JObj(<<KV(K_startSalary, JNull), KV(K_endSalary, JNum(2))>>),
      JObj(<<KV(K_category, JNull), KV(K_startSalary, JNum(2)),
             KV(K_endSalary, JNum(5)), KV(K_popularity, JStr(A_))>>) }
Wrapped(text) == <<"a", " ">> \o text \o <<" ", "a">>
ModelTexts ==
    ProseTexts
    \cup { json_dumps(v) : v \in NamesPayloads \cup DetailPayloads }
    \cup { Wrapped(json_dumps(v)) : v \in NamesPayloads \cup DetailPayloads }
Outcomes ==
    { Failure(e) : e \in TransportErrors } \cup { Response(x) : x \in ModelTexts }

\* the public operation continues, without suspending, once its ladder ends
Finish(which, l) ==
    CASE l.pc = "done" /\ which = "names" -> list_profession_names(l.result)
      [] l.pc = "done" /\ which = "detail" ->
            get_profession_detail(l.result, RequestedName)
      [] l.pc = "raised" -> Raise(l.exc)
      [] OTHER -> NotReturned

ProviderInit ==
    /\ ProviderAlone
    /\ layer_retries \in 0..MaxRetries
    /\ op = "none"
    /\ lad = LadderIdle
    /\ ret = NotReturned

CallListProfessionNames ==
    /\ op = "none"
    /\ op' = "names"
    /\ lad' = LadderStart(layer_retries)
    /\ ret' = Finish("names", lad')
    /\ UNCHANGED layer_retries
    /\ OutsideProvider

CallGetProfessionDetail ==
    /\ op = "none"
    /\ op' = "detail"
    /\ lad' = LadderStart(layer_retries)
    /\ ret' = Finish("detail", lad')
    /\ UNCHANGED layer_retries
    /\ OutsideProvider

ResponsesCallEnds ==
    /\ lad.pc = "call" /\ lad.layer \in {1, 2}
    /\ \E outcome \in Outcomes :
          lad' = LadderOnAttempt(lad, outcome, _responses_call(outcome))
    /\ ret' = Finish(op, lad')
    /\ UNCHANGED <<layer_retries, op>>
    /\ OutsideProvider

ChatCallEnds ==
    /\ lad.pc = "call" /\ lad.layer = 3
    /\ \E outcome \in Outcomes :
          lad' = LadderOnAttempt(lad, outcome, _chat_call(outcome))
    /\ ret' = Finish(op, lad')
    /\ UNCHANGED <<layer_retries, op>>
    /\ OutsideProvider

BackoffEnds ==
    /\ lad.pc = "sleep"
    /\ lad' = LadderOnWake(lad, layer_retries)
    /\ ret' = Finish(op, lad')
    /\ UNCHANGED <<layer_retries, op>>
    /\ OutsideProvider

ProviderNext ==
    \/ CallListProfessionNames
    \/ CallGetProfessionDetail
    \/ ResponsesCallEnds
    \/ ChatCallEnds
    \/ BackoffEnds
SpecProvider == ProviderInit /\ [][ProviderNext]_vars

(***************************************************************************)
(* The skills validator applied to bounded inputs                          *)
(***************************************************************************)
MaxSkills == 5
Python == <<"P", "y", "t", "h", "o", "n">>
python_padded == <<" ", "p", "y", "t", "h", "o", "n", " ">>
Go == <<"G", "o">>
SkillEntries == {JStr(Python), JStr(python_padded), JStr(<<>>), JStr(Go), JNum(1)}
SkillInputs ==
    { JArr(xs) : xs \in TextsUpTo(SkillEntries, MaxSkills) }
    \cup { JNull, JStr(Go), JNum(1), JObj(<<KV(Go, JStr(Go))>>) }
ExampleSkills ==
    JArr(<<JStr(Python), JStr(python_padded), JStr(<<>>), JStr(Go), JStr(Go)>>)

SkillsInit ==
    /\ SkillsAlone
    /\ skills_in \in SkillInputs
    /\ skills_out = Unset
    /\ dto_in = Unset
    /\ dto_out = NotReturned

CleanSkills ==
    /\ skills_out = Unset
    /\ skills_out' = _clean_skills(skills_in)
    /\ UNCHANGED <<skills_in, dto_in, dto_out>>
    /\ OutsideSkills

SkillsNext == CleanSkills
SpecSkills == SkillsInit /\ [][SkillsNext]_vars

(***************************************************************************)
(* UploadProfessionDto applied to bounded keyword arguments                *)
(***************************************************************************)
MaxSalary == 3
\* the values a keyword argument takes here; Absent leaves the argument out
NameArgs == { JStr(<<"A", "b">>), JStr(<<>>), Absent }
CategoryArgs == { JStr(<<"L", "A", "W">>), JStr(<<"X">>), Absent }
SalaryArgs == { JNum(k) : k \in (0 - 1)..MaxSalary } \cup { JNull, Absent }
PopularityArgs == { JStr(<<"L", "O", "W">>), JStr(<<"a">>), Absent }
SkillsArgs == { JArr(<<JStr(<<"a">>), JStr(<<"a">>)>>), Absent }
Given(k, v) == IF v = Absent THEN <<>> ELSE <<KV(k, v)>>
DtoInputs ==
    { JObj(Given(K_name, n) \o Given(K_category, c) \o Given(K_startSalary, s)
           \o Given(K_endSalary, e) \o Given(K_popularity, p)
           \o Given(K_skills, k)) :
        n \in NameArgs, c \in CategoryArgs, s \in SalaryArgs, e \in SalaryArgs,
        p \in PopularityArgs, k \in SkillsArgs }

DtoInit ==
    /\ SkillsAlone
    /\ skills_in = Unset
    /\ skills_out = Unset
    /\ dto_in \in DtoInputs
    /\ dto_out = NotReturned

\* UploadProfessionDto(**dto_in).model_dump()
ValidateDto ==
    /\ dto_out = NotReturned
    /\ dto_out' = UploadProfessionDto(dto_in)
    /\ UNCHANGED <<skills_in, skills_out, dto_in>>
    /\ OutsideSkills

DtoNext == ValidateDto
SpecDto == DtoInit /\ [][DtoNext]_vars

(***************************************************************************)
(* main() from its start to the name list handed to Stage B                *)
(***************************************************************************)
MaxLines == 3
MaxNamesLen == 2
Ab == <<"A", "b">>
RawLines == { Ab, <<" ", "a", "B", " ">>, <<"c">>, <<"#", "c">>, <<>> }
NamesFiles ==
    {NoFile} \cup { [exists |-> TRUE, lines |-> ls] : ls \in TextsUpTo(RawLines, MaxLines) }
CategoryFilters ==
    { NoFilter, <<"TECHNOLOGY">>, <<"LAW">>, <<"MEDICINE", "BUSINESS">>,
      <<"LAW", "TECHNOLOGY">>, <<"BUSINESS", "BUSINESS">>,
      <<"AGRICULTURE", "SCIENCE">> }
NameEntries == { JStr(Ab), JStr(<<"a", "B", " ">>), JStr(<<" ", "c">>), JNum(1) }
NamesTexts ==
    { json_dumps(JObj(<<KV(K_names, JArr(xs))>>)) :
        xs \in TextsUpTo(NameEntries, MaxNamesLen) }
    \cup { <<"[", "1", "]">>,
           json_dumps(JObj(<<KV(K_names, JNum(1))>>)),
           json_dumps(JObj(<<KV(K_names, JStr(<<"c", "C">>))>>)) }
NamesLadderResults == LadderResults(NamesTexts)

\* the string entries of a ladder result's names, as list_profession_names
\* reads them
RawNames(out) ==
    LET got == DictGet(out, K_names) IN
    IF Truthy(got) THEN StrTexts(Iterate(got)) ELSE <<>>
Texts(list) == [k \in 1..Len(list.a) |-> list.a[k].s]

NamesInit ==
    /\ NamesAlone
    /\ \/ names_file = NoFile /\ categories \in CategoryFilters
       \/ names_file \in NamesFiles /\ categories = NoFilter
    /\ main_pc = "start"
    /\ cat_idx = 0
    /\ collected = <<>>
    /\ raw_seen = <<>>
    /\ names = <<>>

\* main: names = load_names_file(...); if there are none, Stage A starts
\* and awaits its first list_profession_names
LoadNames ==
    /\ main_pc = "start"
    /\ LET loaded == load_names_file(names_file) IN
          IF loaded # <<>>
          THEN /\ names' = loaded
               /\ main_pc' = "stage_b"
               /\ cat_idx' = cat_idx
          ELSE /\ names' = names
               /\ main_pc' = "stage_a"
               /\ cat_idx' = 1
    /\ UNCHANGED <<names_file, categories, collected, raw_seen>>
    /\ OutsideNames

\* a list_profession_names awaited by Stage A returns lst: names.extend(lst),
\* then the next category or the end of _stage_a_collect_names
NamesCallReturns ==
    /\ main_pc = "stage_a"
    /\ \E out \in NamesLadderResults :
          LET r == list_profession_names(out) IN
          /\ ~r.raised
          /\ LET ns == collected \o Texts(r.val) IN
             /\ collected' = ns
             /\ raw_seen' = raw_seen \o RawNames(out)
             /\ IF cat_idx < Len(categories)
                THEN /\ cat_idx' = cat_idx + 1
                     /\ UNCHANGED <<main_pc, names>>
                ELSE /\ names' = StageAResult(ns, categories)
                     /\ main_pc' = "stage_b"
                     /\ cat_idx' = cat_idx
    /\ UNCHANGED <<names_file, categories>>
    /\ OutsideNames

\* a list_profession_names awaited by Stage A raises: nothing catches it
NamesCallRaises ==
    /\ main_pc = "stage_a"
    /\ \E out \in NamesLadderResults : list_profession_names(out).raised
    /\ main_pc' = "crashed"
    /\ UNCHANGED <<names_file, categories, cat_idx, collected, raw_seen, names>>
    /\ OutsideNames

NamesNext ==
    \/ LoadNames
    \/ NamesCallReturns
    \/ NamesCallRaises
SpecNames == NamesInit /\ [][NamesNext]_vars

(***************************************************************************)
(* Stage B: _stage_b_enrich_details, one task per submitted name           *)
(*                                                                         *)
(* unit[k] is the task _one(submitted[k]):                                 *)
(*   pc      "created" (not yet run), "waiting" (in the semaphore's queue),*)
(*           "woken" (its future was set, the task has not resumed yet),   *)
(*           "fetching" (inside get_profession_detail, suspended on a call *)
(*           or a backoff sleep), "done" or "raised"                       *)
(*   lad     its ladder while it is fetching                               *)
(*   result  what its ladder returned, seq its rank among the finished     *)
(***************************************************************************)
MaxNames == 3
MaxConcurrency == 2
MaxFanoutRetries == 1

Law == <<"L", "A", "W">>
\* the k-th submitted name; the names handed to Stage B differ pairwise
NameAt(k) == <<"N">> \o IntText(k)
FanoutPayloads ==
    { JObj(<<KV(K_category, JStr(Law)), KV(K_startSalary, JNum(5)),
             KV(K_endSalary, JNum(2)),
             KV(K_skills, JArr(<<JStr(A_), JStr(A_), JNum(1)>>))>>),
      JObj(<<KV(K_category, JStr(<<"X">>))>>) }
FanoutOutcomes ==
    { Failure("APITimeoutError"), Response(<<"[", "1", "]">>) }
    \cup { Response(json_dumps(v)) : v \in FanoutPayloads }

UnitCreated == [pc |-> "created", lad |-> LadderIdle, result |-> Unset, seq |-> 0]
Units == 1..Len(submitted)
Finished == {k \in Units : unit[k].seq > 0}
Gate == [sem |-> sem, waiters |-> waiters, unit |-> unit, rows |-> rows,
         preflight |-> preflight]

\* a semaphore that never reports itself locked
LockedNever(value, ws) == FALSE
\* Semaphore.locked(): no free slot, or a waiter that must go first
Locked(value, ws) == value = 0 \/ ws # <<>>

\* a release that wakes nobody
WakeUpNextNobody(g) == g
\* Semaphore._wake_up_next(): the first waiter whose future is not done gets
\* the slot and its future set; it stays in the queue until it resumes
WakeUpNext(g) ==
    LET pending == {i \in 1..Len(g.waiters) : g.unit[g.waiters[i]].pc = "waiting"}
    IN IF pending = {} THEN g
       ELSE LET first == CHOOSE i \in pending : \A j \in pending : i <= j
            IN [g EXCEPT !.sem = @ - 1, !.unit[g.waiters[first]].pc = "woken"]
\* leaving async with without giving the slot back
ReleaseNever(g) == g
\* Semaphore.release()
Release(g) == WakeUpNext([g EXCEPT !.sem = @ + 1])

\* the handler of _one that catches validation errors only
OneExceptClauseValidationOnly == { "ValidationError" }
\* the except clause of _one
OneExceptClause == { "Exception" }

\* the try body of _one once the ladder of get_profession_detail has ended:
\* the normalised detail, then UploadProfessionDto(**detail).model_dump()
TryBody(name, l) ==
    LET detail == IF l.pc = "raised" THEN Raise(l.exc)
                  ELSE get_profession_detail(l.result, name)
    IN IF detail.raised THEN detail ELSE UploadProfessionDto(detail.val)
\* a rejection entry that leaves the exception's class out of the reason
RejectionUntyped(name, exc) ==
    [profession |-> name, reason |-> "validation_or_fetch_error"]
\* the entry appended to preflight: f"validation_or_fetch_error:{type(e).__name__}"
Rejection(name, exc) ==
    [profession |-> name, reason |-> "validation_or_fetch_error:" \o exc]
Caught(got) ==
    got.raised /\ \E cls \in OneExceptClause : IsSubclass(got.exc, cls)

\* an accumulation that puts the newest entry first
AccumulateFirst(list, entry) == <<entry>> \o list
\* rows.append(...) and preflight.append(...)
Accumulate(list, entry) == Append(list, entry)

Becomes(g) ==
    /\ sem' = g.sem
    /\ waiters' = g.waiters
    /\ unit' = g.unit
    /\ rows' = g.rows
    /\ preflight' = g.preflight

\* _one(submitted[k]) from the end of its ladder l to the end of the task:
\* the try body gave got, the row or the rejection is appended, then
\* async with releases the slot
Complete(g, k, l, got) ==
    LET ended == [pc |-> IF got.raised /\ ~Caught(got) THEN "raised" ELSE "done",
                  lad |-> LadderIdle,
                  result |-> IF l.pc = "raised" THEN Unset ELSE l.result,
                  seq |-> Cardinality({j \in DOMAIN g.unit : g.unit[j].seq > 0}) + 1]
    IN \E h \in {[g EXCEPT
                    !.rows = IF got.raised THEN @ ELSE Accumulate(@, got.val),
                    !.preflight = IF Caught(got)
                                  THEN Accumulate(@, Rejection(submitted[k], got.exc))
                                  ELSE @,
                    !.unit[k] = ended]} :
          \E freed \in {Release(h)} : Becomes(freed)

\* unit k holds a slot and its ladder stands at l: the task is suspended
\* inside get_profession_detail, or runs on to its end when the ladder ended
Proceeds(g, k, l) ==
    IF Ended(l)
    THEN \E got \in {TryBody(submitted[k], l)} : Complete(g, k, l, got)
    ELSE Becomes([g EXCEPT !.unit[k].pc = "fetching", !.unit[k].lad = l])

RemoveWaiter(ws, k) == SelectSeq(ws, LAMBDA j : j # k)
AllStarted == \A k \in Units : unit[k].pc # "created"

FanoutInit ==
    /\ FanoutAlone
    /\ layer_retries \in 0..MaxFanoutRetries
    /\ concurrency \in 1..MaxConcurrency
    /\ \E n \in 0..MaxNames : submitted = [k \in 1..n |-> NameAt(k)]
    /\ sem = 0
    /\ waiters = <<>>
    /\ unit = <<>>
    /\ rows = <<>>
    /\ preflight = <<>>
    /\ stage_b = "idle"

\* _stage_b_enrich_details up to its first await: the semaphore, the two
\* lists and one task per name; with no name it returns at once
StageBCreatesTasks ==
    /\ stage_b = "idle"
    /\ sem' = concurrency
    /\ waiters' = <<>>
    /\ unit' = [k \in Units |-> UnitCreated]
    /\ rows' = <<>>
    /\ preflight' = <<>>
    /\ stage_b' = IF submitted = <<>> THEN "returned" ELSE "awaiting"
    /\ UNCHANGED <<layer_retries, concurrency, submitted>>
    /\ OutsideFanout

\* the first step of a task, the tasks running in the order of their
\* creation: sem.acquire() takes a slot and the task enters
\* get_profession_detail, or the task joins the semaphore's queue
TaskStarts(k) ==
    /\ stage_b = "awaiting"
    /\ unit[k].pc = "created"
    /\ \A j \in 1..(k - 1) : unit[j].pc # "created"
    /\ IF ~Locked(sem, waiters)
       THEN \E l \in {LadderStart(layer_retries)} :
               Proceeds([Gate EXCEPT !.sem = @ - 1], k, l)
       ELSE Becomes([Gate EXCEPT !.waiters = Append(@, k),
                                 !.unit[k].pc = "waiting"])
    /\ UNCHANGED <<layer_retries, concurrency, submitted, stage_b>>
    /\ OutsideFanout

\* a woken task resumes inside sem.acquire(): it leaves the queue, passes a
\* free slot on, and enters get_profession_detail
TaskResumes(k) ==
    /\ stage_b = "awaiting"
    /\ unit[k].pc = "woken"
    /\ \E left \in {[Gate EXCEPT !.waiters = RemoveWaiter(@, k)]} :
       \E passed \in {IF left.sem > 0 THEN WakeUpNext(left) ELSE left} :
       \E l \in {LadderStart(layer_retries)} :
          Proceeds(passed, k, l)
    /\ UNCHANGED <<layer_retries, concurrency, submitted, stage_b>>
    /\ OutsideFanout

\* the endpoint call a fetching unit awaits ends
UnitCallEnds(k) ==
    /\ stage_b = "awaiting"
    /\ AllStarted
    /\ unit[k].pc = "fetching" /\ unit[k].lad.pc = "call"
    /\ \E outcome \in FanoutOutcomes :
       \E got \in {IF unit[k].lad.layer = 3 THEN _chat_call(outcome)
                   ELSE _responses_call(outcome)} :
       \E l \in {LadderOnAttempt(unit[k].lad, outcome, got)} :
          Proceeds(Gate, k, l)
    /\ UNCHANGED <<layer_retries, concurrency, submitted, stage_b>>
    /\ OutsideFanout

\* the backoff sleep a fetching unit awaits ends
UnitBackoffEnds(k) ==
    /\ stage_b = "awaiting"
    /\ AllStarted
    /\ unit[k].pc = "fetching" /\ unit[k].lad.pc = "sleep"
    /\ \E l \in {LadderOnWake(unit[k].lad, layer_retries)} :
          Proceeds(Gate, k, l)
    /\ UNCHANGED <<layer_retries, concurrency, submitted, stage_b>>
    /\ OutsideFanout

\* the loop over as_completed ends: with the last task done the two lists
\* are returned; a task that ended with an exception makes await fut raise
StageBEnds ==
    /\ stage_b = "awaiting"
    /\ IF \E k \in Units : unit[k].pc = "raised" THEN TRUE
       ELSE \A k \in Units : unit[k].pc = "done"
    /\ stage_b' = IF \E k \in Units : unit[k].pc = "raised"
                  THEN "raised" ELSE "returned"
    /\ UNCHANGED <<layer_retries, concurrency, submitted, sem, waiters, unit,
                   rows, preflight>>
    /\ OutsideFanout

FanoutNext ==
    \/ StageBCreatesTasks
    \/ \E k \in Units : TaskStarts(k)
    \/ \E k \in Units : TaskResumes(k)
    \/ \E k \in Units : UnitCallEnds(k)
    \/ \E k \in Units : UnitBackoffEnds(k)
    \/ StageBEnds
SpecFanout == FanoutInit /\ [][FanoutNext]_vars
\* the states in which some step of FanoutNext can be taken: the guards of
\* its actions (every action that passes its guard has a successor)
FanoutEnabled ==
    \/ stage_b = "idle"
    \/ /\ stage_b = "awaiting"
       /\ \/ \E k \in Units : unit[k].pc \in {"created", "woken"}
          \/ AllStarted /\ \E k \in Units :
                unit[k].pc = "fetching" /\ unit[k].lad.pc \in {"call", "sleep"}
          \/ \E k \in Units : unit[k].pc = "raised"
          \/ \A k \in Units : unit[k].pc = "done"
\* the event loop runs every task that is ready, and every awaited endpoint
\* call (bounded by _with_timeout) and every backoff sleep ends: a step that
\* stays possible is eventually taken.  This is weak fairness of FanoutNext,
\* WF_vars(FanoutNext), with its enabling condition written as FanoutEnabled
\* and its steps as the steps that change vars (under SpecFanout every such
\* step is a step of FanoutNext)
SpecFanoutFair ==
    SpecFanout /\ ([]<>(~FanoutEnabled) \/ []<><<TRUE>>_vars)

(***************************************************************************)
(* Claims about the salvage parser                                         *)
(***************************************************************************)
HasBraceSpan(s) ==
    \E i \in 1..Len(s) : \E j \in (i + 1)..Len(s) : s[i] = "{" /\ s[j] = "}"
Contains(s, c) == \E i \in 1..Len(s) : s[i] = c
IsBlank(s) == \A i \in 1..Len(s) : s[i] \in Whitespace

\* C5: for every input text that contains no '{' followed later by '}',
\* _safe_json returns the empty mapping.
C5_NoSpanGivesEmptyMapping ==
    (salvaged # Unset /\ ~HasBraceSpan(SalvageInput)) => salvaged = EmptyDict

CleanAffix == ~Contains(prefix, "{") /\ ~Contains(suffix, "}")
WholeIsArrayOrString ==
    LET p == SkipWs(SalvageInput, 1) IN SalvageInput[p] \in {"[", "\""}

AllEmptyOrFailed(l) ==
    \A k \in 1..Len(l.calls) : l.calls[k].how \in {"empty", "failed"}

\* C1: as soon as an attempt returns a non-empty result the ladder has ended
\* with that result, the attempt being the last one made and the only one
\* that was not empty; and no step taken after a non-empty result makes
\* another attempt (no retry, no later layer).
C1_LadderShortCircuit ==
    [][ /\ Truthy(lad'.out) =>
              /\ lad'.pc = "done"
              /\ lad'.result = lad'.out
              /\ lad'.calls[Len(lad'.calls)].how = "result"
              /\ \A k \in 1..(Len(lad'.calls) - 1) :
                    lad'.calls[k].how \in {"empty", "failed"}
        /\ Truthy(lad.out) => lad'.calls = lad.calls ]_vars

\* the first attempt of the tool-augmented layer answered, with retries and
\* two more layers still available
C1_Witness ==
    /\ layer_retries >= 2
    /\ lad.pc = "done"
    /\ Truthy(lad.result)
    /\ Len(lad.calls) = 1 /\ lad.calls[1].layer = 1

\* C2: the ladder never raises; an attempt that failed at transport level
\* leaves the ladder where an empty result leaves it (out = {}, backing off
\* or ended, the attempts made so far being the first ones of the fixed
\* order); and when every attempt of the three layers was empty or failed
\* the ladder's result is the empty mapping.
C2_LadderNeverRaises ==
    /\ lad.pc # "raised"
    /\ \A k \in 1..Len(lad.calls) :
          lad.calls[k].layer = ((k - 1) \div layer_retries) + 1
    /\ (lad.calls # <<>> /\ lad.calls[Len(lad.calls)].how = "failed") =>
          /\ lad.out = EmptyDict
          /\ lad.pc \in {"sleep", "done"}
    /\ (lad.pc = "done" /\ AllEmptyOrFailed(lad)) =>
          /\ lad.result = EmptyDict
          /\ Len(lad.calls) = 3 * layer_retries

\* all six attempts made, some failed and some answered empty
C2_Witness ==
    /\ layer_retries = 2
    /\ lad.pc = "done"
    /\ Len(lad.calls) = 6
    /\ AllEmptyOrFailed(lad)
    /\ \E k \in 1..6 : lad.calls[k].how = "failed"
    /\ \E k \in 1..6 : lad.calls[k].how = "empty"
    /\ lad.result = EmptyDict

\* C7: whatever the ladder yields, list_profession_names returns a list of
\* strings and get_profession_detail returns a mapping, without raising.
C7_PublicOperationsNeverRaise ==
    ret # NotReturned =>
        /\ ~ret.raised
        /\ op = "names" =>
              /\ IsList(ret.val)
              /\ \A k \in 1..Len(ret.val.a) : IsStr(ret.val.a[k])
        /\ op = "detail" => IsDict(ret.val)

(***************************************************************************)
(* Claims about the skills validator                                       *)
(***************************************************************************)
\* the entries of a list that survive cleaning: the strings whose trimmed
\* text is not empty and, under key, not that of an earlier string entry
Kept(v, key(_)) ==
    { i \in 1..Len(v) :
        /\ IsStr(v[i]) /\ strip(v[i].s) # <<>>
        /\ \A j \in 1..(i - 1) :
              ~(IsStr(v[j]) /\ key(strip(v[j].s)) = key(strip(v[i].s))) }
\* the trimmed texts of those entries in input order
KeptTexts(v, key(_)) ==
    LET K == Kept(v, key)
        nth(k) == CHOOSE i \in K : Cardinality({j \in K : j <= i}) = k
    IN [k \in 1..Cardinality(K) |-> strip(v[nth(k)].s)]
Exact(x) == x

SkillsGeneral ==
    (skills_out # Unset /\ IsList(skills_in)) =>
        skills_out = KeptTexts(skills_in.a, Exact)

\* C9 as claimed: ["Python", " python ", "", "Go", "Go"] is cleaned to
\* ["Python", "Go"], and in general the output is the string entries trimmed,
\* empty ones dropped, duplicates removed, in first-seen order.
C9_SkillsCleaningAsClaimed ==
    /\ (skills_out # Unset /\ skills_in = ExampleSkills) =>
          skills_out = <<Python, Go>>
    /\ SkillsGeneral

\* C9 amended: the example is cleaned to ["Python", "python", "Go"]; in
\* general the output is the string entries trimmed, empty ones dropped and
\* exact-string (case-sensitive) duplicates removed, in first-seen order; an
\* input that is not a list gives the empty list.
C9_SkillsCleaning ==
    /\ (skills_out # Unset /\ skills_in = ExampleSkills) =>
          skills_out = <<Python, <<"p", "y", "t", "h", "o", "n">>, Go>>
    /\ SkillsGeneral
    /\ (skills_out # Unset /\ ~IsList(skills_in)) => skills_out = <<>>

C9_Witness ==
    /\ skills_in = ExampleSkills
    /\ skills_out # Unset
    /\ Len(skills_out) = 3

(***************************************************************************)
(* Claims about name collection                                            *)
(***************************************************************************)
SeedList == ExtendAll(SeededCategories, 1)
WentThroughStageA == cat_idx >= 1

\* C8: for every category filter, when every names-mode ladder call yielded no
\* names, _stage_a_collect_names returns a non-empty list of seed names.
C8_SeedFallbackNonEmpty ==
    (main_pc = "stage_b" /\ WentThroughStageA /\ collected = <<>>) =>
        /\ names # <<>>
        /\ \A k \in 1..Len(names) : \E j \in 1..Len(SeedList) : names[k] = SeedList[j]

IsCommentLine(x) == strip(x) # <<>> /\ strip(x)[1] = "#"
NotCommentLine(x) == ~IsCommentLine(x)
Key(x) == lower(strip(x))
FirstOccurrences(texts) == KeptTexts(StrList(texts).a, lower)

\* the sequence of names the list handed to Stage B was made from: the lines
\* of the file that are no comments, or the string entries of the answers in
\* the order received, or the seed names of the filter
NamesInput ==
    IF ~WentThroughStageA THEN SelectSeq(names_file.lines, NotCommentLine)
    ELSE IF collected # <<>> THEN raw_seen
    ELSE IF categories # <<>> THEN ExtendAll(categories, 1)
    ELSE SeedList

\* C10: the name list handed to Stage B holds, for each distinct
\* case-insensitive key of its input, the trimmed first occurrence and nothing
\* else, in first-seen order; so do the lists _dedup_strings makes; and the
\* dedup that made a list returns that list when applied to it.
C10_NamesDeduplicated ==
    /\ main_pc = "stage_b" =>
          /\ names = FirstOccurrences(NamesInput)
          /\ \A i, j \in 1..Len(names) : Key(names[i]) = Key(names[j]) => i = j
          /\ \A x \in {NamesInput[k] : k \in 1..Len(NamesInput)} :
                strip(x) # <<>> => \E i \in 1..Len(names) : Key(names[i]) = Key(x)
          /\ IF WentThroughStageA
             THEN StageADedup(names) = names
             ELSE load_names_file([exists |-> TRUE, lines |-> names]) = names
    /\ \A texts \in {raw_seen, names_file.lines} :
          /\ _dedup_strings(texts) = FirstOccurrences(texts)
          /\ _dedup_strings(_dedup_strings(texts)) = _dedup_strings(texts)

\* two answers whose names repeat across categories in another casing
C10_Witness ==
    /\ main_pc = "stage_b"
    /\ cat_idx = 2
    /\ Len(names) >= 2
    /\ Len(raw_seen) > Len(names)
    /\ \E i, j \in 1..Len(raw_seen) :
          i < j /\ raw_seen[i] # raw_seen[j] /\ Key(raw_seen[i]) = Key(raw_seen[j])
    /\ \E k \in 1..Len(names) : lower(names[k]) # names[k]

(***************************************************************************)
(* Claims about Stage B                                                    *)
(***************************************************************************)
Inside == {k \in Units : unit[k].pc = "fetching"}
Queued == {waiters[i] : i \in 1..Len(waiters)}
Unfinished == {k \in Units : unit[k].pc \notin {"done", "raised"}}

\* C3: at every instant at most `concurrency` units are inside
\* get_profession_detail (awaiting an endpoint call or a backoff sleep); every
\* other unfinished unit whose task has begun is in the semaphore's queue, and
\* a unit still waits there only while no slot is free.
C3_BoundedConcurrency ==
    stage_b = "awaiting" =>
       /\ Cardinality(Inside) <= concurrency
       /\ \A k \in Unfinished :
             \/ unit[k].pc = "created"
             \/ k \in Inside
             \/ k \in Queued /\ unit[k].pc \in {"waiting", "woken"}
       /\ (\E k \in Units : unit[k].pc = "waiting") =>
             /\ sem = 0
             /\ Cardinality({k \in Units : unit[k].pc \in {"fetching", "woken"}})
                  = concurrency

\* the ceiling is reached with units in calls and in backoff, another waits
C3_Witness ==
    /\ stage_b = "awaiting"
    /\ concurrency = 2
    /\ Cardinality(Inside) = 2
    /\ \E k \in Inside : unit[k].lad.pc = "call"
    /\ \E k \in Inside : unit[k].lad.pc = "sleep"
    /\ \E k \in Units : unit[k].pc = "waiting"

\* what the try body of unit k gives for the result its own ladder returned
OwnOutcome(k) ==
    TryBody(submitted[k], [LadderIdle EXCEPT !.pc = "done", !.result = unit[k].result])
\* the units of S in the order they finished
ByRank(S) ==
    [i \in 1..Cardinality(S) |->
        CHOOSE k \in S : Cardinality({j \in S : unit[j].seq < unit[k].seq}) = i - 1]
AcceptedUnits == {k \in Finished : ~OwnOutcome(k).raised}
RejectedUnits == {k \in Finished : OwnOutcome(k).raised}

\* C4: no unit's fetch or validation failure aborts the batch: the batch
\* never ends with an exception and never stalls; every finished unit has
\* exactly one entry, the accepted list holding, in completion order, the
\* record that the unit's own name and own ladder result give, the rejected
\* list holding {profession, reason} for the others; on return every unit has
\* finished and accepted + rejected is the number of submitted names.
C4_BatchIsolation ==
    /\ stage_b # "raised"
    /\ \A k \in Units : k \in DOMAIN unit => unit[k].pc # "raised"
    /\ stage_b \in {"awaiting", "returned"} =>
          \A own \in {[k \in Finished |-> OwnOutcome(k)]} :
          \A accepted \in {ByRank({k \in Finished : ~own[k].raised})} :
          \A rejected \in {ByRank({k \in Finished : own[k].raised})} :
             /\ rows = [i \in 1..Len(accepted) |-> own[accepted[i]].val]
             /\ preflight = [i \in 1..Len(rejected) |->
                               Rejection(submitted[rejected[i]],
                                         own[rejected[i]].exc)]
             /\ Len(rows) + Len(preflight) = Cardinality(Finished)
    /\ stage_b = "awaiting" /\ Unfinished # {} =>
          \E k \in Unfinished : unit[k].pc \in {"created", "woken", "fetching"}
    /\ stage_b = "returned" =>
          /\ Unfinished = {}
          /\ Len(rows) + Len(preflight) = Len(submitted)

\* three names, one accepted, one refused by the validator and one whose
\* fetch gave no mapping
C4_Witness ==
    /\ stage_b = "returned"
    /\ Len(submitted) = 3
    /\ Len(rows) = 1
    /\ \E i \in 1..Len(preflight) :
          preflight[i].reason = "validation_or_fetch_error:ValidationError"
    /\ \E i \in 1..Len(preflight) :
          preflight[i].reason = "validation_or_fetch_error:AttributeError"
    /\ \E i \in 1..Len(rows) : \E k \in Units :
          /\ DictGet(rows[i], K_name) = JStr(submitted[k])
          /\ unit[k].seq = 3

(***************************************************************************)
(* Claims about the names stage and the detail normalizer                  *)
(***************************************************************************)
\* C11: for every mapping the ladder returns, list_profession_names returns
\* the text entries of `names`, trimmed and deduplicated case-insensitively in
\* first-seen order with the casing of the first occurrence, `names` counting
\* as the empty sequence when the field is absent or is not a list.
C11_NamesExtraction ==
    (op = "names" /\ lad.pc = "done" /\ IsDict(lad.result)) =>
        LET got == DictGet(lad.result, K_names)
            entries == IF IsList(got) THEN got.a ELSE <<>>
        IN ret = Return(StrList(FirstOccurrences(StrTexts(entries))))

Returned(which) == op = which /\ lad.pc = "done" /\ IsDict(lad.result) /\ ~ret.raised
StartIn == DictGet(lad.result, K_startSalary)
EndIn == DictGet(lad.result, K_endSalary)
StartOut == DictGet(ret.val, K_startSalary)
EndOut == DictGet(ret.val, K_endSalary)

\* C12: get_profession_detail never raises on a mapping; when both salaries
\* of the mapping are numbers with startSalary > endSalary the returned
\* mapping has the two exchanged, hence startSalary <= endSalary; numbers
\* already in order, and salaries of which one or both are absent or null,
\* are returned as they were (an absent one reads as null).
C12_NormalizerSalarySwap ==
    (op = "detail" /\ lad.pc = "done" /\ IsDict(lad.result)) =>
        /\ ~ret.raised /\ IsDict(ret.val)
        /\ (IsNumber(StartIn) /\ IsNumber(EndIn) /\ StartIn.n > EndIn.n) =>
              /\ StartOut = EndIn /\ EndOut = StartIn
              /\ StartOut.n <= EndOut.n
        /\ (IsNumber(StartIn) /\ IsNumber(EndIn) /\ StartIn.n <= EndIn.n) =>
              StartOut = StartIn /\ EndOut = EndIn
        /\ (StartIn = JNull \/ EndIn = JNull) =>
              StartOut = StartIn /\ EndOut = EndIn

\* a mapping with startSalary 5 and endSalary 2 came back as 2 and 5
C12_Witness ==
    /\ Returned("detail")
    /\ StartIn = JNum(5) /\ EndIn = JNum(2)
    /\ StartOut = JNum(2) /\ EndOut = JNum(5)

(***************************************************************************)
(* Claims about UploadProfessionDto                                        *)
(***************************************************************************)
Accepted == dto_out # NotReturned /\ ~dto_out.raised
ArgStart == DictGet(dto_in, K_startSalary)
ArgEnd == DictGet(dto_in, K_endSalary)
\* the arguments are valid but for the order of the two salaries
OnlySalaryOrderWrong ==
    /\ ValidateName(DictGet(dto_in, K_name)).ok
    /\ ValidateCategory(DictGet(dto_in, K_category)).ok
    /\ ValidatePopularity(DictGet(dto_in, K_popularity)).ok
    /\ IsNumber(ArgStart) /\ IsNumber(ArgEnd)
    /\ ArgEnd.n >= 0 /\ ArgStart.n > ArgEnd.n

\* C13: every record UploadProfessionDto accepts with both salaries present
\* has startSalary <= endSalary, and arguments whose only defect is
\* startSalary > endSalary are accepted with the two values exchanged.
C13_DtoSalarySwap ==
    dto_out # NotReturned =>
        /\ (Accepted /\ DictGet(dto_out.val, K_startSalary) # JNull
                     /\ DictGet(dto_out.val, K_endSalary) # JNull) =>
              DictGet(dto_out.val, K_startSalary).n
                 <= DictGet(dto_out.val, K_endSalary).n
        /\ OnlySalaryOrderWrong =>
              /\ Accepted
              /\ DictGet(dto_out.val, K_startSalary) = ArgEnd
              /\ DictGet(dto_out.val, K_endSalary) = ArgStart

OptionalKeys == {K_description, K_startSalary, K_endSalary, K_popularity}
DetailKeys == {K_name, K_category, K_skills} \cup OptionalKeys
SalariesExchanged == IsNumber(StartIn) /\ IsNumber(EndIn) /\ StartIn.n > EndIn.n
\* the defaults of get_profession_detail, common to the claim and its amendment
DefaultsFilled ==
    /\ ~ret.raised /\ IsDict(ret.val)
    /\ Keys(ret.val) = Keys(lad.result) \cup DetailKeys
    /\ ~HasKey(lad.result, K_category) =>
          /\ DictGet(ret.val, K_category) = JStr(BUSINESS)
          /\ ~UploadProfessionDto(DictSet(ret.val, K_category, JStr(Law))).raised
                => /\ ~UploadProfessionDto(ret.val).raised
                   /\ DictGet(UploadProfessionDto(ret.val).val, K_category)
                         = JStr(BUSINESS)
    /\ ~HasKey(lad.result, K_name) =>
          DictGet(ret.val, K_name) = JStr(RequestedName)
    /\ \A k \in OptionalKeys :
          ~HasKey(lad.result, k) => DictGet(ret.val, k) = JNull
    /\ ~IsList(DictGet(lad.result, K_skills)) =>
          DictGet(ret.val, K_skills) = JArr(<<>>)
\* the field under k came back as the ladder returned it
LeftAsReturned(k) == DictGet(ret.val, k) = DictGet(lad.result, k)

\* C14 as stated: the defaults are filled and every field that is present,
\* but a skills value that is no list, is left as returned.
C14_DefaultFillingAsClaimed ==
    (op = "detail" /\ lad.pc = "done" /\ IsDict(lad.result)) =>
        /\ DefaultsFilled
        /\ \A k \in Keys(lad.result) :
              (k = K_skills => IsList(DictGet(lad.result, K_skills)))
                 => LeftAsReturned(k)

\* C14: when the ladder's mapping lacks category the normalizer puts BUSINESS
\* and the record is not rejected for that reason alone; a missing name
\* becomes the requested name, a missing optional field null, a skills value
\* that is no list the empty list; every other field that is present is left
\* as returned, except that two numeric salaries with startSalary > endSalary
\* are exchanged.
C14_DefaultFilling ==
    (op = "detail" /\ lad.pc = "done" /\ IsDict(lad.result)) =>
        /\ DefaultsFilled
        /\ \A k \in Keys(lad.result) :
              /\ (k = K_skills => IsList(DictGet(lad.result, K_skills)))
              /\ (k \in {K_startSalary, K_endSalary} => ~SalariesExchanged)
              => LeftAsReturned(k)
        /\ SalariesExchanged => StartOut = EndIn /\ EndOut = StartIn

\* a mapping with neither name nor category came back with the requested
\* name and BUSINESS, its startSalary untouched, and validates
C14_Witness ==
    /\ Returned("detail")
    /\ ~HasKey(lad.result, K_category) /\ ~HasKey(lad.result, K_name)
    /\ DictGet(ret.val, K_category) = JStr(BUSINESS)
    /\ DictGet(ret.val, K_name) = JStr(RequestedName)
    /\ StartIn = JNum(5) /\ StartOut = JNum(5)
    /\ ~UploadProfessionDto(ret.val).raised

(***************************************************************************)
(* Further claims about Stage B                                            *)
(***************************************************************************)
Holders == {k \in Units : unit[k].pc \in {"fetching", "woken"}}
HeldSlots == concurrency - sem

\* C15: a unit is inside get_profession_detail only while it holds a slot,
\* each unit that ended, with a row or with a rejection, has given its slot
\* back, so the held slots are exactly those of the units between acquire and
\* release, their number lies between 0 and `concurrency`, and when every
\* unit has completed all slots are free and nobody is queued.
C15_GateDiscipline ==
    stage_b \in {"awaiting", "returned"} =>
       /\ HeldSlots >= 0 /\ HeldSlots <= concurrency
       /\ HeldSlots = Cardinality(Holders)
       /\ \A k \in Units : unit[k].pc \in {"created", "waiting"} =>
             unit[k].lad = LadderIdle
       /\ Unfinished = {} => sem = concurrency /\ waiters = <<>>

\* more names than slots, a row and both kinds of rejection, all slots free
C15_Witness ==
    /\ stage_b = "returned"
    /\ Len(submitted) > concurrency
    /\ sem = concurrency
    /\ Len(rows) >= 1
    /\ \E i, j \in 1..Len(preflight) :
          /\ preflight[i].reason = "validation_or_fetch_error:ValidationError"
          /\ preflight[j].reason = "validation_or_fetch_error:AttributeError"

\* the exception unit k ended with escaped get_profession_detail
FetchFailed(k) == get_profession_detail(unit[k].result, submitted[k]).raised
\* the rejected unit that made the i-th entry of preflight
RejectedAt(i) == ByRank(RejectedUnits)[i]

\* C16: a rejection whose exception escaped get_profession_detail carries a
\* reason different from the reason of every rejection made by a validation
\* failure of UploadProfessionDto: the former ends with the class of the fetch
\* exception (AttributeError), the latter with ValidationError.
C16_RejectionClassified ==
    stage_b \in {"awaiting", "returned"} =>
       \A rejected \in {ByRank(RejectedUnits)} :
       \A failed \in {[k \in Finished |-> FetchFailed(k)]} :
          Len(preflight) = Len(rejected) =>
             /\ \A i \in 1..Len(preflight) :
                   /\ preflight[i].profession = submitted[rejected[i]]
                   /\ preflight[i].reason =
                         IF failed[rejected[i]]
                         THEN "validation_or_fetch_error:AttributeError"
                         ELSE "validation_or_fetch_error:ValidationError"
             /\ \A i, j \in 1..Len(preflight) :
                   (failed[rejected[i]] /\ ~failed[rejected[j]]) =>
                      preflight[i].reason # preflight[j].reason

\* one unit's fetch gave a list, another's record was refused
C16_Witness ==
    /\ stage_b = "returned"
    /\ Len(preflight) = 2
    /\ FetchFailed(RejectedAt(1)) /\ ~FetchFailed(RejectedAt(2))
    /\ unit[RejectedAt(1)].result = JArr(<<JNum(1)>>)
    /\ IsDict(unit[RejectedAt(2)].result)

\* the units that complete in the step
Completing == {k \in Units : unit[k].seq = 0 /\ unit'[k].seq > 0}

\* C17: a step in which no unit completes leaves both sequences as they are;
\* a step in which a unit completes is the completion of that unit alone, it
\* gives the unit the next rank and appends one entry at the end of one of the
\* two sequences, the other being untouched; the entries already there and the
\* ranks already given stay as they are.
C17_CompletionOrder ==
    [][ (stage_b = "awaiting" /\ stage_b' = "awaiting") =>
          /\ Cardinality(Completing) <= 1
          /\ Completing = {} => rows' = rows /\ preflight' = preflight
          /\ \A k \in Completing :
                /\ unit'[k].seq = Cardinality(Finished) + 1
                /\ \/ /\ Len(rows') = Len(rows) + 1
                      /\ SubSeq(rows', 1, Len(rows)) = rows
                      /\ DictGet(rows'[Len(rows')], K_name) = JStr(submitted[k])
                      /\ preflight' = preflight
                   \/ /\ Len(preflight') = Len(preflight) + 1
                      /\ SubSeq(preflight', 1, Len(preflight)) = preflight
                      /\ preflight'[Len(preflight')].profession = submitted[k]
                      /\ rows' = rows
          /\ \A k \in Finished : unit'[k] = unit[k] ]_vars

\* the second name completed first: the rows stand in completion order
C17_Witness ==
    /\ stage_b = "returned"
    /\ Len(submitted) = 3
    /\ Len(rows) = 2 /\ Len(preflight) = 1
    /\ DictGet(rows[1], K_name) = JStr(submitted[2])
    /\ DictGet(rows[2], K_name) = JStr(submitted[1])
    /\ unit[2].seq < unit[3].seq /\ unit[3].seq < unit[1].seq

\* C18: a unit whose ladder returned the empty mapping has no record in the
\* accepted sequence and has an entry in the rejected sequence.
C18_ExhaustionRejected ==
    stage_b \in {"awaiting", "returned"} =>
       \A k \in Finished :
          unit[k].result = EmptyDict =>
             /\ \A i \in 1..Len(rows) :
                   DictGet(rows[i], K_name) # JStr(submitted[k])
             /\ \E i \in 1..Len(preflight) :
                   preflight[i].profession = submitted[k]

(***************************************************************************)
(* Further claims about the ladder                                         *)
(***************************************************************************)
AttemptsOf(layer) == {k \in 1..Len(lad.calls) : lad.calls[k].layer = layer}

\* C19: with retry count R = layer_retries, no layer is attempted more than R
\* times, the attempts go through the layers in the order 1, 2, 3 without
\* return, a layer after the first is attempted only when the layer before it
\* made exactly R attempts, none of which gave a result, and the ladder makes
\* at most 3 * R endpoint calls.
C19_RetryBoundAndOrder ==
    /\ Len(lad.calls) <= 3 * layer_retries
    /\ \A k \in 1..Len(lad.calls) : lad.calls[k].layer \in 1..3
    /\ \A layer \in 1..3 : Cardinality(AttemptsOf(layer)) <= layer_retries
    /\ \A k \in 1..(Len(lad.calls) - 1) :
          lad.calls[k].layer <= lad.calls[k + 1].layer
    /\ lad.calls # <<>> => lad.calls[1].layer = 1
    /\ \A layer \in 2..3 :
          AttemptsOf(layer) # {} =>
             /\ Cardinality(AttemptsOf(layer - 1)) = layer_retries
             /\ \A k \in AttemptsOf(layer - 1) :
                   lad.calls[k].how \in {"empty", "failed"}

\* the chat layer answered on its second attempt, the sixth call of the ladder
C19_Witness ==
    /\ layer_retries = 2
    /\ lad.pc = "done"
    /\ Len(lad.calls) = 6
    /\ lad.calls[6].layer = 3 /\ lad.calls[6].how = "result"
    /\ Cardinality(AttemptsOf(1)) = 2 /\ Cardinality(AttemptsOf(2)) = 2

\* C20: the delay that follows the k-th empty attempt of a layer is min(k, 3)
\* seconds, so the delays are between 1 and 3; a delay is awaited only after
\* an empty attempt that a retry of the same layer follows, never after a
\* non-empty attempt and never after the last attempt of a layer.
C20_BackoffSchedule ==
    /\ \A k \in 1..Len(lad.sleeps) : lad.sleeps[k] \in 1..MaxDelay
    /\ lad.pc = "sleep" =>
          /\ lad.sleeps[Len(lad.sleeps)] = Min(lad.i + 1, MaxDelay)
          /\ ~Truthy(lad.out)
          /\ lad.calls[Len(lad.calls)].how \in {"empty", "failed"}
          /\ lad.i + 1 < layer_retries

\* C21: with a ceiling of at least 1, every awaited call and sleep ending and
\* the ready tasks being run, _stage_b_enrich_details eventually returns with
\* every unit completed, no unit waits for a slot forever, and a unit that
\* stops waiting holds a slot.
WaitsForSlot(k) == stage_b = "awaiting" /\ k \in Queued /\ unit[k].pc = "waiting"
C21_FanoutTerminates ==
    /\ <>[](stage_b = "returned" /\ \A k \in Units : unit[k].pc = "done")
    /\ \A k \in 1..MaxNames : []<>(~WaitsForSlot(k))
    /\ [][\A k \in 1..MaxNames :
             WaitsForSlot(k) /\ ~WaitsForSlot(k)' => (k \in Holders)']_vars
\* the call has returned after its last unit, which found the only slot taken,
\* waited for it and completed last
C21_Witness ==
    /\ stage_b = "returned"
    /\ concurrency = 1
    /\ Len(submitted) = MaxNames
    /\ layer_retries >= 1
    /\ unit[Len(submitted)].seq = Len(submitted)
    /\ unit[Len(submitted)].result = EmptyDict

=============================================================================
